---- MODULE Spec2Model ----
(***************************************************************************)
(* Quasi-static r-z wakefield solver (Baxevanis & Stupakov reduced model). *)
(* Model of wake_t/physics_models/plasma_wakefields/qs_rz_baxevanis/       *)
(* solver.py: the driver calculate_wakefields, update_gamma_and_pz and     *)
(* calculate_beam_source_from_particles.                                   *)
(*                                                                         *)
(* Real numbers are exact rationals <<n, d>> in lowest terms with d >= 0;  *)
(* <<1, 0>> and <<-1, 0>> are the float infinities.                        *)
(***************************************************************************)
EXTENDS Integers, Sequences, FiniteSets, TLC

(***************************************************************************)
(* Bounds of the model.                                                    *)
(***************************************************************************)
MaxNxi == 3
MaxNr == 3
MaxPart == 3
MaxWork == 4
BeamMaxNxi == 2
BeamMaxNr == 2

(***************************************************************************)
(* Rational arithmetic.                                                    *)
(***************************************************************************)
Abs(x) == IF x < 0 THEN -x ELSE x

RECURSIVE Gcd(_, _)
Gcd(a, b) == IF b = 0 THEN a ELSE Gcd(b, a % b)

Rat(n, d) ==
    IF d = 0 THEN <<(IF n > 0 THEN 1 ELSE IF n < 0 THEN -1 ELSE 0), 0>>
    ELSE LET g == Gcd(Abs(n), Abs(d))
             s == IF d < 0 THEN -1 ELSE 1
         IN  <<(s * n) \div g, (s * d) \div g>>

RInt(n) == <<n, 1>>
R0 == RInt(0)
R1 == RInt(1)
RNan == <<0, 0>>
RIsNan(a) == a = RNan
\* -1, 0, 1 for -inf, a finite value, +inf
RRank(a) == IF a[2] = 0 THEN a[1] ELSE 0
\* inf + inf = inf, inf + (-inf) = nan, inf + x = inf
RAdd(a, b) ==
    IF RIsNan(a) \/ RIsNan(b) THEN RNan
    ELSE IF a[2] = 0 /\ b[2] = 0 THEN (IF a = b THEN a ELSE RNan)
    ELSE Rat(a[1] * b[2] + b[1] * a[2], a[2] * b[2])
RNeg(a) == <<-a[1], a[2]>>
RSub(a, b) == RAdd(a, RNeg(b))
RMul(a, b) == Rat(a[1] * b[1], a[2] * b[2])
\* the sign of the divisor is carried by the numerator, so that inf / -3 is
\* -inf; x / 0 is +-inf or nan, as for numpy floats
RDiv(a, b) ==
    IF b[1] < 0 THEN Rat(-(a[1] * b[2]), -(a[2] * b[1]))
    ELSE Rat(a[1] * b[2], a[2] * b[1])
RAbs(a) == <<Abs(a[1]), a[2]>>
\* every comparison with nan is false
RLt(a, b) ==
    /\ ~RIsNan(a) /\ ~RIsNan(b)
    /\ IF a[2] = 0 \/ b[2] = 0 THEN RRank(a) < RRank(b)
       ELSE a[1] * b[2] < b[1] * a[2]
RLe(a, b) ==
    /\ ~RIsNan(a) /\ ~RIsNan(b)
    /\ IF a[2] = 0 \/ b[2] = 0 THEN RRank(a) <= RRank(b)
       ELSE a[1] * b[2] <= b[1] * a[2]
RGe(a, b) == RLe(b, a)
RSq(a) == RMul(a, a)
\* floor of a finite rational (Python int() of a non-negative float)
RFloor(a) == a[1] \div a[2]

RECURSIVE RSumSeq(_)
RSumSeq(s) == IF s = <<>> THEN R0 ELSE RAdd(Head(s), RSumSeq(Tail(s)))

(***************************************************************************)
(* Grids: arrays indexed from 0, as numpy's.                               *)
(***************************************************************************)
ZeroGrid(rows, cols) == [j \in 0..(rows - 1) |-> [k \in 0..(cols - 1) |-> R0]]
GridRows(g) == Cardinality(DOMAIN g)
GridCols(g) == Cardinality(DOMAIN g[0])
GridIsZero(g) == \A j \in DOMAIN g : \A k \in DOMAIN g[j] : g[j][k] = R0
\* a negative Python index counts from the end
PyIndex(i, len) == IF i < 0 THEN len + i ELSE i


(***************************************************************************)
(* Input sets.  Lengths are given in metres and are divided by the skin    *)
(* depth s_d before the sweep; the skin depth itself comes from the plasma *)
(* density n_p.                                                            *)
(***************************************************************************)
\* r_max_plasma = None: the empty tuple, which is no float (nan is <<0, 0>>)
RNone == <<>>
SkinDepths == {RInt(2)}
RMaxValues == {RInt(6)}
XiMinValues == {RInt(-4)}
XiMaxValues == {RInt(0), RInt(-8)}
RMaxPlasmaValues == {RNone, RInt(2), RInt(4)}
MaxGammaValues == {RInt(2), RInt(10)}
Pushers == {"rk4", "ab5", "euler"}
Shapes == {"linear", "cubic"}
LaserValues == {R0, RInt(2)}
BeamValues == {R0, R1}
PsiValues == {RInt(-2), RInt(-1), R0}
RowScales == {R0, R1}
QDistValues == {RInt(-1), R0, RInt(2)}
DrValues == {<<1, 2>>, RInt(2)}

\* np.linspace(a, b, n)[j], j = 0 .. n-1
Linspace(a, b, n, j) ==
    IF n = 1 THEN a
    ELSE RAdd(a, RMul(RInt(j), RDiv(RSub(b, a), RInt(n - 1))))

(***************************************************************************)
(* calculate_wakefields, lines 91-103: normalisation of the geometry.      *)
(***************************************************************************)
Normalize(c) ==
    LET r_max == RDiv(c.r_max, c.s_d)
        xi_min == RDiv(c.xi_min, c.s_d)
        xi_max == RDiv(c.xi_max, c.s_d)
    IN  [r_max |-> r_max, xi_min |-> xi_min, xi_max |-> xi_max,
         dr |-> RDiv(r_max, RInt(c.n_r)),
         dxi |-> RDiv(RSub(xi_max, xi_min), RInt(c.n_xi - 1)),
         r_max_plasma |-> IF c.r_max_plasma = RNone THEN r_max
                          ELSE RDiv(c.r_max_plasma, c.s_d)]

\* xi_fld[j], line 128
XiFld(c, g, j) == Linspace(g.xi_min, g.xi_max, c.n_xi, j)

(***************************************************************************)
(* PlasmaParticles(...).initialize(): a fixed number of particles, evenly  *)
(* spaced in r, at rest, each with charge weight dr_p * r.                 *)
(***************************************************************************)
NumParticles(c, g) ==
    RFloor(RMul(RDiv(g.r_max_plasma, g.dr), RInt(c.ppc)))

InitParticles(c, g) ==
    LET n == NumParticles(c, g)
        dr_p == RDiv(g.dr, RInt(c.ppc))
        r == [k \in 1..n |->
                 Linspace(RDiv(dr_p, RInt(2)),
                          RSub(g.r_max_plasma, RDiv(dr_p, RInt(2))), n, k - 1)]
    IN  [r |-> r,
         pr |-> [k \in 1..n |-> R0],
         pz |-> [k \in 1..n |-> R0],
         gamma |-> [k \in 1..n |-> R1],
         q |-> [k \in 1..n |-> RMul(dr_p, r[k])]]

NoParticles == [r |-> <<>>, pr |-> <<>>, pz |-> <<>>, gamma |-> <<>>, q |-> <<>>]

(***************************************************************************)
(* update_gamma_and_pz, lines 208-226.                                     *)
(***************************************************************************)
GammaOfMutNoRestMass(pr, a2, psi) ==
    RDiv(RAdd(RAdd(RSq(pr), a2), RSq(RAdd(R1, psi))),
         RMul(RInt(2), RAdd(R1, psi)))

GammaOf(pr, a2, psi) ==
    RDiv(RAdd(RAdd(RAdd(R1, RSq(pr)), a2), RSq(RAdd(R1, psi))),
         RMul(RInt(2), RAdd(R1, psi)))

PzOf(pr, a2, psi) ==
    RDiv(RSub(RAdd(RAdd(R1, RSq(pr)), a2), RSq(RAdd(R1, psi))),
         RMul(RInt(2), RAdd(R1, psi)))

\* the compiled loop raises ZeroDivisionError at the first particle whose
\* denominator 2 * (1 + psi) is zero; Len + 1 when there is none
FirstSingular(psi) ==
    LET bad == {i \in 1..Len(psi) : RAdd(R1, psi[i]) = R0}
    IN  IF bad = {} THEN Len(psi) + 1
        ELSE CHOOSE i \in bad : \A j \in bad : i <= j

\* the arrays after the loop: particles before the first singular one are
\* written, the others keep their values
update_gamma_and_pz(gamma, pz, pr, a2, psi) ==
    LET stop == FirstSingular(psi)
    IN  [gamma |-> [i \in 1..Len(pr) |->
                       IF i < stop THEN GammaOf(pr[i], a2[i], psi[i])
                       ELSE gamma[i]],
         pz |-> [i \in 1..Len(pr) |->
                    IF i < stop THEN PzOf(pr[i], a2[i], psi[i]) ELSE pz[i]],
         raised |-> stop <= Len(pr)]

(***************************************************************************)
(* The freeze step, lines 163-170.                                         *)
(***************************************************************************)
IdxKeep(gamma, max_gamma) == {k \in 1..Len(gamma) : RGe(gamma[k], max_gamma)}

FreezeMutRemove(p, max_gamma) ==
    LET keep == IdxKeep(p.gamma, max_gamma)
    IN  [p EXCEPT
           !.pz = [k \in 1..Len(p.pz) |-> IF k \in keep THEN R0 ELSE p.pz[k]],
           !.gamma = [k \in 1..Len(p.gamma) |->
                         IF k \in keep THEN R1 ELSE p.gamma[k]],
           !.pr = [k \in 1..Len(p.pr) |-> IF k \in keep THEN R0 ELSE p.pr[k]],
           !.q = [k \in 1..Len(p.q) |-> IF k \in keep THEN R0 ELSE p.q[k]]]

Freeze(p, max_gamma) ==
    LET keep == IdxKeep(p.gamma, max_gamma)
    IN  [p EXCEPT
           !.pz = [k \in 1..Len(p.pz) |-> IF k \in keep THEN R0 ELSE p.pz[k]],
           !.gamma = [k \in 1..Len(p.gamma) |->
                         IF k \in keep THEN R1 ELSE p.gamma[k]],
           !.pr = [k \in 1..Len(p.pr) |-> IF k \in keep THEN R0 ELSE p.pr[k]]]

(***************************************************************************)
(* calculate_beam_source_from_particles, lines 252-274: the field of a     *)
(* deposited charge distribution q_dist (guard cells included).            *)
(***************************************************************************)
\* q_dist[2:-2, 2:-2]
StripGuards(g) ==
    [j \in 0..(GridRows(g) - 5) |->
        [k \in 0..(GridCols(g) - 5) |-> g[j + 2][k + 2]]]

\* r_grid_g[k] = (0.5 + k) * dr
RGridG(k, dr) == RMul(<<2 * k + 1, 2>>, dr)

SubsNoAxis(qd, j, k) == RDiv(qd[j][k], RInt(2))

\* subs = q_dist / 2; subs[:, 0] += q_dist[:, 0] / 4
Subs(qd, j, k) ==
    IF k = 0 THEN RAdd(RDiv(qd[j][k], RInt(2)), RDiv(qd[j][0], RInt(4)))
    ELSE RDiv(qd[j][k], RInt(2))

\* np.cumsum(q_dist, axis=1)[j, k]
RECURSIVE CumSum(_, _, _)
CumSum(qd, j, k) ==
    IF k = 0 THEN qd[j][0] ELSE RAdd(CumSum(qd, j, k - 1), qd[j][k])

BThetaFromDist(q_full, n_xi, n_r, dr) ==
    LET qd == StripGuards(q_full)
    IN  [j \in 0..(n_xi + 3) |-> [k \in 0..(n_r + 3) |->
            IF j \in 2..(n_xi + 1) /\ k \in 2..(n_r + 1)
            THEN RDiv(RMul(RSub(CumSum(qd, j - 2, k - 2), Subs(qd, j - 2, k - 2)),
                           dr),
                      RAbs(RGridG(k - 2, dr)))
            ELSE R0]]


(***************************************************************************)
(* np.gradient(f, h, edge_order=2) along one axis: central differences     *)
(* inside, second-order one-sided differences at both ends.  It needs at   *)
(* least edge_order + 1 = 3 points and raises ValueError otherwise.        *)
(***************************************************************************)
Diff3(f, n, i, h) ==
    IF i = 0
    THEN RDiv(RNeg(RAdd(RSub(RMul(RInt(3), f[0]), RMul(RInt(4), f[1])), f[2])),
              RMul(RInt(2), h))
    ELSE IF i = n - 1
    THEN RDiv(RAdd(RSub(RMul(RInt(3), f[n - 1]), RMul(RInt(4), f[n - 2])),
                   f[n - 3]),
              RMul(RInt(2), h))
    ELSE RDiv(RSub(f[i + 1], f[i - 1]), RMul(RInt(2), h))

GradientTooSmall(n_xi, n_r) == n_xi < 3 \/ n_r < 3

\* d/dxi and d/dr of the interior of the potential grid
GradXi(f, n_xi, n_r, dxi) ==
    [j \in 0..(n_xi - 1) |-> [k \in 0..(n_r - 1) |->
        Diff3([m \in 0..(n_xi - 1) |-> f[m][k]], n_xi, j, dxi)]]
GradR(f, n_xi, n_r, dr) ==
    [j \in 0..(n_xi - 1) |-> [k \in 0..(n_r - 1) |-> Diff3(f[j], n_r, k, dr)]]

\* a grid with guard cells whose interior is minus the given array
NegInterior(inner, n_xi, n_r) ==
    [j \in 0..(n_xi + 3) |-> [k \in 0..(n_r + 3) |->
        IF j \in 2..(n_xi + 1) /\ k \in 2..(n_r + 1)
        THEN RNeg(inner[j - 2][k - 2]) ELSE R0]]

GridAdd(a, b) == [j \in DOMAIN a |-> [k \in DOMAIN a[j] |-> RAdd(a[j][k], b[j][k])]]

\* lines 199-205
DeriveFields(psi_g, b_bar, b_0, n_xi, n_r, dxi, dr) ==
    LET inner == StripGuards(psi_g)
        E_z == NegInterior(GradXi(inner, n_xi, n_r, dxi), n_xi, n_r)
        W_r == NegInterior(GradR(inner, n_xi, n_r, dr), n_xi, n_r)
        B_theta == GridAdd(b_bar, b_0)
    IN  [E_r |-> GridAdd(W_r, B_theta), E_z |-> E_z, B_theta |-> B_theta]

(***************************************************************************)
(* The slice loop, lines 135-197.                                          *)
(***************************************************************************)
\* i = -1 - step
SliceIndex(step) == -1 - step

RowOfMutNoHalo(step, n_xi) == PyIndex(SliceIndex(step), n_xi + 4)

\* the row psi[i-2, ...] and b_theta_bar[i-2, ...] write
RowOf(step, n_xi) == PyIndex(SliceIndex(step) - 2, n_xi + 4)

PushCondMutAlways(step, n_xi) == step < n_xi

\* if step < n_xi-1
PushCond(step, n_xi) == step < n_xi - 1

\* the key order of np.argsort on floats: a < b, with nan after every number
SortLt(a, b) == RLt(a, b) \/ (RIsNan(b) /\ ~RIsNan(a))

\* the insertion np.argsort does on an array of at most 16 elements: index
\* vi goes in front of the trailing indexes whose keys are greater, so that
\* equal keys stay in storage order
RECURSIVE InsertIdx(_, _, _)
InsertIdx(s, vi, r) ==
    IF s # <<>> /\ SortLt(r[vi], r[s[Len(s)]])
    THEN Append(InsertIdx(SubSeq(s, 1, Len(s) - 1), vi, r), s[Len(s)])
    ELSE Append(s, vi)

RECURSIVE ArgsortUpTo(_, _)
ArgsortUpTo(r, n) ==
    IF n = 0 THEN <<>> ELSE InsertIdx(ArgsortUpTo(r, n - 1), n, r)

\* np.argsort(pp.r), line 147
Argsort(r) == ArgsortUpTo(r, Len(r))

\* w_rho and w_chi, lines 180-181
WRho(p, dr, k) ==
    RDiv(p.q[k],
         RMul(RMul(dr, p.r[k]), RSub(R1, RDiv(p.pz[k], p.gamma[k]))))
WChi(p, dr, k) == RDiv(WRho(p, dr, k), p.gamma[k])

(***************************************************************************)
(* Collaborators of the driver: interpolation, field solvers, deposition   *)
(* kernels and the two pushers.  What a solver or a pusher returns is not  *)
(* decided here: each returns any of a few listed values.                  *)
(***************************************************************************)
\* a2_rz: the laser mesh with guard cells (lines 113-115); the laser is
\* uniform over the box
A2rz(c) ==
    [j \in 0..(c.n_xi + 3) |-> [k \in 0..(c.n_r + 3) |->
        IF j \in 2..(c.n_xi + 1) /\ k \in 2..(c.n_r + 1) THEN c.laser ELSE R0]]

\* gather_sources_qs_baxevanis: the mesh value of the cell the particle is in
GatherA2(c, g, p, step) ==
    [k \in 1..Len(p.r) |->
        A2rz(c)[PyIndex(SliceIndex(step), c.n_xi) + 2]
               [RFloor(RDiv(p.r[k], g.dr)) + 2]]

\* calculate_psi_and_derivatives_at_particles: the potential at each
\* particle, any of the listed values
PsiAtParticles(p) == [1..Len(p.r) -> PsiValues]

\* calculate_psi and calculate_b_theta at the grid radii: the two rows of a
\* slice, flat or a radial ramp
FieldRows(c) ==
    {[psi |-> [k \in 0..(c.n_r - 1) |-> RMul(a, RInt(k + 1))],
      b_theta |-> [k \in 0..(c.n_r - 1) |-> RNeg(RMul(a, RInt(k + 1)))]] :
        a \in RowScales}

\* deposit_plasma_particles: the row of the slice
SliceRow(c, g, step) ==
    RFloor(RDiv(RSub(XiFld(c, g, PyIndex(SliceIndex(step), c.n_xi)), g.xi_min),
                g.dxi)) + 2

RCube(u) == RMul(u, RMul(u, u))

\* the shape factors of a particle at the fraction u of its cell, and the
\* cell the first of them goes to: order 1 over two cells, order 3 over four
ShapeFactors(shape, u) ==
    IF shape = "linear"
    THEN [first |-> 0, w |-> <<RSub(R1, u), u>>]
    ELSE [first |-> -1,
          w |-> <<RDiv(RCube(RSub(R1, u)), RInt(6)),
                  RDiv(RAdd(RSub(RMul(RInt(3), RCube(u)),
                                 RMul(RInt(6), RSq(u))), RInt(4)), RInt(6)),
                  RDiv(RAdd(RAdd(RAdd(RMul(RInt(-3), RCube(u)),
                                      RMul(RInt(3), RSq(u))),
                                 RMul(RInt(3), u)), R1), RInt(6)),
                  RDiv(RCube(u), RInt(6))>>]

\* deposit_plasma_particles: each weight is shared between the cells around
\* the particle, guard cells included, in the row of the slice
RECURSIVE DepositFrom(_, _, _, _, _, _, _)
DepositFrom(grid, row, g, shape, p, w, k) ==
    IF k > Len(p.r) THEN grid
    ELSE LET x == RDiv(RSub(p.r[k], RDiv(g.dr, RInt(2))), g.dr)
             cell == RFloor(x)
             s == ShapeFactors(shape, RSub(x, RInt(cell)))
             col0 == cell + 2 + s.first
             g1 == [grid EXCEPT ![row] = [m \in DOMAIN grid[row] |->
                      IF m - col0 \in 0..(Len(s.w) - 1)
                      THEN RAdd(grid[row][m], RMul(w[k], s.w[m - col0 + 1]))
                      ELSE grid[row][m]]]
         IN  DepositFrom(g1, row, g, shape, p, w, k + 1)

\* w = - q / ct.e / (2 * np.pi * dr * dxi * s_d ** 3 * n_p), line 245, for a
\* beam whose charge is c.beam in units of 2 * pi * e * s_d^3 * n_p
BeamWeight(c, g) == RNeg(RDiv(c.beam, RMul(g.dr, g.dxi)))

\* deposit_3d_distribution of an on-axis beam sitting in the head slice:
\* its whole weight lands in the innermost cell of that row
BeamDist(c, g) ==
    [ZeroGrid(c.n_xi + 4, c.n_r + 4) EXCEPT ![c.n_xi + 1][2] = BeamWeight(c, g)]

\* the radius a push can send a particle to: next to the axis
RKick(g) == RDiv(g.dr, RInt(4))

\* evolve_plasma_rk4 / evolve_plasma_ab5: r and pr of every particle after
\* one step: each particle keeps its r and pr or is sent to RKick with
\* radial momentum 1
Pushed(g, p) ==
    {[p EXCEPT !.r = [k \in 1..Len(p.r) |-> IF k \in moved THEN RKick(g)
                                             ELSE p.r[k]],
               !.pr = [k \in 1..Len(p.r) |-> IF k \in moved THEN R1
                                              ELSE p.pr[k]]] :
        moved \in SUBSET (1..Len(p.r))}


(***************************************************************************)
(* State of one call of calculate_wakefields.                              *)
(***************************************************************************)
VARIABLES
    pc,              \* the statement the call is at
    cfg,             \* the arguments of the call
    geo,             \* the normalised geometry (r_max, xi_min, xi_max, dr, dxi)
    pp,              \* the plasma particles: r, pr, pz, gamma, q
    a2_pp, psi_pp,   \* laser intensity and potential at the particles
    idx,             \* the radial ordering of the current slice
    idx_keep,        \* the particles the freeze step resets
    step,            \* the loop counter
    psi, b_theta_bar, rho, chi,   \* grids filled by the sweep
    q_dist, b_theta_0_mesh,       \* beam charge distribution and its field
    out,             \* the grids returned
    err,             \* the exception the call ended with
    visited,         \* slice indexes processed so far, in order
    written,         \* grid rows written so far, in order
    log,             \* stages run in the current slice, in order
    npush,           \* calls of a pusher so far
    quiet            \* so far every solver returned zero potential and field
                     \* and every push left r and pr as they were

vars == <<pc, cfg, geo, pp, a2_pp, psi_pp, idx, idx_keep, step, psi,
          b_theta_bar, rho, chi, q_dist, b_theta_0_mesh, out, err, visited,
          written, log, npush, quiet>>

GeoNone == [r_max |-> R0, xi_min |-> R0, xi_max |-> R0, dr |-> R0,
            dxi |-> R0, r_max_plasma |-> R0]
OutNone == [returned |-> FALSE, rho |-> <<>>, chi |-> <<>>, E_r |-> <<>>,
            E_z |-> <<>>, B_theta |-> <<>>]

Calls ==
    [n_xi : 1..MaxNxi, n_r : {MaxNr}, ppc : {1}, r_max : RMaxValues,
     xi_min : XiMinValues, xi_max : XiMaxValues, s_d : SkinDepths,
     r_max_plasma : RMaxPlasmaValues, max_gamma : MaxGammaValues,
     plasma_pusher : Pushers, p_shape : Shapes, laser : LaserValues,
     beam : BeamValues]

Sized(c) ==
    LET n == NumParticles(c, Normalize(c))
    IN  n \in 1..MaxPart /\ n * c.n_xi <= MaxWork

\* the defaults of the signature, lines 27-29
DefaultOptions(c) == c.plasma_pusher = "rk4" /\ c.p_shape = "cubic"
\* no laser, no beam, the default max_gamma
DefaultDrive(c) == c.laser = R0 /\ c.beam = R0 /\ c.max_gamma = RInt(10)

\* calls on a box of positive extent: any drive with the default options,
\* or any options without drive
ValidInputs ==
    {c \in Calls : /\ Sized(c) /\ c.xi_max = R0
                   /\ (DefaultOptions(c) \/ DefaultDrive(c))}

\* a box whose xi_max lies below its xi_min
BadExtentInputs ==
    {c \in Calls : /\ Sized(c) /\ c.xi_max # R0
                   /\ DefaultOptions(c) /\ DefaultDrive(c)}

Inputs == ValidInputs \cup BadExtentInputs

Blank ==
    /\ geo = GeoNone
    /\ pp = NoParticles
    /\ a2_pp = <<>> /\ psi_pp = <<>> /\ idx = <<>> /\ idx_keep = {}
    /\ step = 0
    /\ psi = <<>> /\ b_theta_bar = <<>> /\ rho = <<>> /\ chi = <<>>
    /\ q_dist = <<>> /\ b_theta_0_mesh = <<>>
    /\ out = OutNone /\ err = "none"
    /\ visited = <<>> /\ written = <<>> /\ log = <<>> /\ npush = 0
    /\ quiet = TRUE

Init == pc = "start" /\ cfg \in Inputs /\ Blank

\* lines 91-128: normalise, create the particles, allocate the grids
Setup ==
    /\ pc = "start"
    /\ geo' = Normalize(cfg)
    /\ pp' = InitParticles(cfg, Normalize(cfg))
    /\ a2_pp' = [k \in 1..NumParticles(cfg, Normalize(cfg)) |-> R0]
    /\ psi_pp' = [k \in 1..NumParticles(cfg, Normalize(cfg)) |-> R0]
    /\ rho' = ZeroGrid(cfg.n_xi + 4, cfg.n_r + 4)
    /\ chi' = ZeroGrid(cfg.n_xi + 4, cfg.n_r + 4)
    /\ psi' = ZeroGrid(cfg.n_xi + 4, cfg.n_r + 4)
    /\ b_theta_bar' = ZeroGrid(cfg.n_xi + 4, cfg.n_r + 4)
    /\ pc' = "beam_deposit"
    /\ UNCHANGED <<cfg, idx, idx_keep, step, q_dist, b_theta_0_mesh, out, err,
                   visited, written, log, npush, quiet>>

\* lines 236-250: deposit the beam
BeamDeposit ==
    /\ pc = "beam_deposit"
    /\ q_dist' = BeamDist(cfg, geo)
    /\ pc' = "beam_field"
    /\ UNCHANGED <<cfg, geo, pp, a2_pp, psi_pp, idx, idx_keep, step, psi,
                   b_theta_bar, rho, chi, b_theta_0_mesh, out, err, visited,
                   written, log, npush, quiet>>

\* lines 252-274, then the loop is entered (line 136)
BeamField ==
    /\ pc = "beam_field"
    /\ b_theta_0_mesh' = BThetaFromDist(q_dist, cfg.n_xi, cfg.n_r, geo.dr)
    /\ pc' = "gather"
    /\ UNCHANGED <<cfg, geo, pp, a2_pp, psi_pp, idx, idx_keep, step, psi,
                   b_theta_bar, rho, chi, q_dist, out, err, visited, written,
                   log, npush, quiet>>

\* lines 137-144
Gather ==
    /\ pc = "gather"
    /\ a2_pp' = GatherA2(cfg, geo, pp, step)
    /\ visited' = Append(visited, SliceIndex(step))
    /\ log' = <<"gather">>
    /\ pc' = "sort"
    /\ UNCHANGED <<cfg, geo, pp, psi_pp, idx, idx_keep, step, psi, b_theta_bar,
                   rho, chi, q_dist, b_theta_0_mesh, out, err, written, npush,
                   quiet>>

\* line 147
Sort ==
    /\ pc = "sort"
    /\ idx' = Argsort(pp.r)
    /\ log' = Append(log, "sort")
    /\ pc' = "psi"
    /\ UNCHANGED <<cfg, geo, pp, a2_pp, psi_pp, idx_keep, step, psi,
                   b_theta_bar, rho, chi, q_dist, b_theta_0_mesh, out, err,
                   visited, written, npush, quiet>>

\* lines 150-152
SolvePsi ==
    /\ pc = "psi"
    /\ psi_pp' \in PsiAtParticles(pp)
    /\ quiet' = (quiet /\ \A k \in 1..Len(pp.r) : psi_pp'[k] = R0)
    /\ log' = Append(log, "psi")
    /\ pc' = "gamma"
    /\ UNCHANGED <<cfg, geo, pp, a2_pp, idx, idx_keep, step, psi, b_theta_bar,
                   rho, chi, q_dist, b_theta_0_mesh, out, err, visited,
                   written, npush>>

\* line 155
UpdateGammaPz ==
    /\ pc = "gamma"
    /\ LET u == update_gamma_and_pz(pp.gamma, pp.pz, pp.pr, a2_pp, psi_pp)
       IN  /\ pp' = [pp EXCEPT !.gamma = u.gamma, !.pz = u.pz]
           /\ IF u.raised
              THEN pc' = "error" /\ err' = "ZeroDivisionError" /\ log' = log
              ELSE pc' = "b_theta" /\ err' = err /\ log' = Append(log, "gamma")
    /\ UNCHANGED <<cfg, geo, a2_pp, psi_pp, idx, idx_keep, step, psi,
                   b_theta_bar, rho, chi, q_dist, b_theta_0_mesh, out, visited,
                   written, npush, quiet>>

\* lines 159-161: the field at the particles feeds the pusher only
SolveBTheta ==
    /\ pc = "b_theta"
    /\ log' = Append(log, "b_theta")
    /\ pc' = "freeze"
    /\ UNCHANGED <<cfg, geo, pp, a2_pp, psi_pp, idx, idx_keep, step, psi,
                   b_theta_bar, rho, chi, q_dist, b_theta_0_mesh, out, err,
                   visited, written, npush, quiet>>

\* lines 166-170
FreezeStep ==
    /\ pc = "freeze"
    /\ idx_keep' = IdxKeep(pp.gamma, cfg.max_gamma)
    /\ pp' = Freeze(pp, cfg.max_gamma)
    /\ log' = Append(log, "freeze")
    /\ pc' = "grid"
    /\ UNCHANGED <<cfg, geo, a2_pp, psi_pp, idx, step, psi, b_theta_bar, rho,
                   chi, q_dist, b_theta_0_mesh, out, err, visited, written,
                   npush, quiet>>

\* lines 173-177
WriteRow(grid, row, vals) ==
    [grid EXCEPT ![row] = [k \in DOMAIN grid[row] |->
        IF k \in 2..(Cardinality(DOMAIN grid[row]) - 3) THEN vals[k - 2]
        ELSE grid[row][k]]]

GridEval ==
    /\ pc = "grid"
    /\ \E rows \in FieldRows(cfg) :
          /\ psi' = WriteRow(psi, RowOf(step, cfg.n_xi), rows.psi)
          /\ b_theta_bar' = WriteRow(b_theta_bar, RowOf(step, cfg.n_xi),
                                     rows.b_theta)
          /\ quiet' = (quiet /\ \A k \in DOMAIN rows.psi :
                                   rows.psi[k] = R0 /\ rows.b_theta[k] = R0)
    /\ written' = written \o
          <<[grid |-> "psi", row |-> RowOf(step, cfg.n_xi),
             xi |-> XiFld(cfg, geo, PyIndex(SliceIndex(step), cfg.n_xi))],
            [grid |-> "b_theta_bar", row |-> RowOf(step, cfg.n_xi),
             xi |-> XiFld(cfg, geo, PyIndex(SliceIndex(step), cfg.n_xi))]>>
    /\ log' = Append(log, "grid")
    /\ pc' = "deposit"
    /\ UNCHANGED <<cfg, geo, pp, a2_pp, psi_pp, idx, idx_keep, step, rho, chi,
                   q_dist, b_theta_0_mesh, out, err, visited, npush>>

\* lines 180-187; when the push is skipped the loop moves on (line 136)
Deposit ==
    /\ pc = "deposit"
    /\ rho' = DepositFrom(rho, SliceRow(cfg, geo, step), geo, cfg.p_shape, pp,
                          [k \in 1..Len(pp.r) |-> WRho(pp, geo.dr, k)], 1)
    /\ chi' = DepositFrom(chi, SliceRow(cfg, geo, step), geo, cfg.p_shape, pp,
                          [k \in 1..Len(pp.r) |-> WChi(pp, geo.dr, k)], 1)
    /\ log' = Append(log, "deposit")
    /\ IF PushCond(step, cfg.n_xi)
       THEN pc' = "push" /\ step' = step
       ELSE /\ step' = step + 1
            /\ pc' = IF step + 1 < cfg.n_xi THEN "gather" ELSE "derive"
    /\ UNCHANGED <<cfg, geo, pp, a2_pp, psi_pp, idx, idx_keep, psi,
                   b_theta_bar, q_dist, b_theta_0_mesh, out, err, visited,
                   written, npush, quiet>>

\* what both pushers do to the state of the call
PushStep ==
    /\ pp' \in Pushed(geo, pp)
    /\ quiet' = (quiet /\ pp'.r = pp.r /\ pp'.pr = pp.pr)
    /\ npush' = npush + 1
    /\ log' = Append(log, "push")
    /\ step' = step + 1
    /\ pc' = IF step + 1 < cfg.n_xi THEN "gather" ELSE "derive"
    /\ UNCHANGED <<cfg, geo, a2_pp, psi_pp, idx, idx_keep, psi, b_theta_bar,
                   rho, chi, q_dist, b_theta_0_mesh, out, err, visited,
                   written>>

\* lines 189-190
EvolveAb5 == pc = "push" /\ cfg.plasma_pusher = "ab5" /\ PushStep

\* lines 191-194
EvolveRk4 == pc = "push" /\ cfg.plasma_pusher = "rk4" /\ PushStep

\* lines 195-197
RaiseBadPusher ==
    /\ pc = "push"
    /\ cfg.plasma_pusher \notin {"ab5", "rk4"}
    /\ pc' = "error"
    /\ err' = "ValueError: Plasma pusher not recognized"
    /\ UNCHANGED <<cfg, geo, pp, a2_pp, psi_pp, idx, idx_keep, step, psi,
                   b_theta_bar, rho, chi, q_dist, b_theta_0_mesh, out, visited,
                   written, log, npush, quiet>>

\* lines 200-205
Derive ==
    /\ pc = "derive"
    /\ ~GradientTooSmall(cfg.n_xi, cfg.n_r)
    /\ LET d == DeriveFields(psi, b_theta_bar, b_theta_0_mesh, cfg.n_xi,
                             cfg.n_r, geo.dxi, geo.dr)
       IN  out' = [returned |-> TRUE, rho |-> rho, chi |-> chi, E_r |-> d.E_r,
                   E_z |-> d.E_z, B_theta |-> d.B_theta]
    /\ pc' = "done"
    /\ UNCHANGED <<cfg, geo, pp, a2_pp, psi_pp, idx, idx_keep, step, psi,
                   b_theta_bar, rho, chi, q_dist, b_theta_0_mesh, err, visited,
                   written, log, npush, quiet>>

\* line 200 on a grid with fewer than three rows or columns
DeriveRaise ==
    /\ pc = "derive"
    /\ GradientTooSmall(cfg.n_xi, cfg.n_r)
    /\ pc' = "error"
    /\ err' = "ValueError: Shape of array too small"
    /\ UNCHANGED <<cfg, geo, pp, a2_pp, psi_pp, idx, idx_keep, step, psi,
                   b_theta_bar, rho, chi, q_dist, b_theta_0_mesh, out, visited,
                   written, log, npush, quiet>>

Next ==
    \/ Setup \/ BeamDeposit \/ BeamField
    \/ Gather \/ Sort \/ SolvePsi \/ UpdateGammaPz \/ SolveBTheta
    \/ FreezeStep \/ GridEval \/ Deposit
    \/ EvolveAb5 \/ EvolveRk4 \/ RaiseBadPusher
    \/ Derive \/ DeriveRaise

Spec == Init /\ [][Next]_vars

(***************************************************************************)
(* calculate_beam_source_from_particles on its own: any deposited charge   *)
(* distribution on a small grid, any positive cell width.                  *)
(***************************************************************************)
BeamCfg(n_xi, n_r) ==
    [n_xi |-> n_xi, n_r |-> n_r, ppc |-> 1, r_max |-> R0, xi_min |-> R0,
     xi_max |-> R0, s_d |-> R1, r_max_plasma |-> RNone, max_gamma |-> RInt(10),
     plasma_pusher |-> "rk4", p_shape |-> "cubic", laser |-> R0, beam |-> R1]

\* q_dist after the deposition: any charge in the cells of the box, and the
\* same spill-over in every guard cell
BeamDists(n_xi, n_r) ==
    {[j \in 0..(n_xi + 3) |-> [k \in 0..(n_r + 3) |->
          IF j \in 2..(n_xi + 1) /\ k \in 2..(n_r + 1)
          THEN inner[<<j - 2, k - 2>>] ELSE guard]] :
        inner \in [(0..(n_xi - 1)) \X (0..(n_r - 1)) -> QDistValues],
        guard \in {R0, R1}}

InitBeam ==
    /\ pc = "beam_field"
    /\ \E n_xi \in 1..BeamMaxNxi, n_r \in 1..BeamMaxNr, dr \in DrValues :
          /\ cfg = BeamCfg(n_xi, n_r)
          /\ geo = [GeoNone EXCEPT !.dr = dr]
          /\ q_dist \in BeamDists(n_xi, n_r)
    /\ pp = NoParticles
    /\ a2_pp = <<>> /\ psi_pp = <<>> /\ idx = <<>> /\ idx_keep = {}
    /\ step = 0
    /\ psi = <<>> /\ b_theta_bar = <<>> /\ rho = <<>> /\ chi = <<>>
    /\ b_theta_0_mesh = <<>>
    /\ out = OutNone /\ err = "none"
    /\ visited = <<>> /\ written = <<>> /\ log = <<>> /\ npush = 0
    /\ quiet = TRUE

NextBeam == BeamField

SpecBeam == InitBeam /\ [][NextBeam]_vars

(***************************************************************************)
(* Properties.                                                             *)
(***************************************************************************)
BadPusher == cfg.plasma_pusher \notin {"rk4", "ab5"}
BadExtent == RLe(cfg.xi_max, cfg.xi_min)
NoDrive == cfg.laser = R0 /\ cfg.beam = R0
SweepOver == pc # "start" /\ step = cfg.n_xi
AfterFreeze == pc \in {"grid", "deposit", "push"}
\* a call the documentation allows: positive extent, a pusher it names
ValidCall == ~BadExtent /\ ~BadPusher
InteriorRows == 2..(cfg.n_xi + 1)
InteriorCols == 2..(cfg.n_r + 1)

\* C1: a call with an unrecognised plasma_pusher fails with a configuration
\* error before the sweep starts: no slice is ever gathered, no grid row is
\* ever written, and the call neither gets past the loop nor returns.
C1_BadPusherFailsBeforeSweep ==
    (BadPusher /\ ~BadExtent) =>
        /\ visited = <<>> /\ written = <<>>
        /\ pc \notin {"derive", "done"}
        /\ (pc = "error" => err = "ValueError: Plasma pusher not recognized")

\* C2: a call whose longitudinal extent is not positive (xi_max <= xi_min)
\* is rejected before the sweep: no slice is processed and no grid returned.
C2_BadGeometryRejected ==
    (BadExtent /\ ~BadPusher) =>
        (visited = <<>> /\ written = <<>> /\ ~out.returned)

\* C3: after the freeze step of every slice every particle has gamma >= 1.
C3_GammaAtLeastOneAfterFreeze ==
    (ValidCall /\ AfterFreeze) => \A k \in 1..Len(pp.gamma) : RGe(pp.gamma[k], R1)

\* C4: once created, the particles keep their number and their charge
\* weights through the whole sweep, so the total charge weight stays what
\* it was at initialisation, frozen particles or not.
C4_ChargePreserved ==
    pc # "start" =>
        /\ Len(pp.q) = NumParticles(cfg, Normalize(cfg))
        /\ pp.q = InitParticles(cfg, Normalize(cfg)).q
        /\ RSumSeq(pp.q) = RSumSeq(InitParticles(cfg, Normalize(cfg)).q)

C4_Witness ==
    /\ ValidCall /\ pc = "done" /\ npush > 0 /\ idx_keep # {}
    /\ RSumSeq(pp.q) = RSumSeq(InitParticles(cfg, Normalize(cfg)).q)
    /\ RSumSeq(pp.q) # R0

AtRest ==
    /\ pp.r = InitParticles(cfg, Normalize(cfg)).r
    /\ \A k \in 1..Len(pp.r) :
          pp.pr[k] = R0 /\ pp.pz[k] = R0 /\ pp.gamma[k] = R1

C6_RowsWrittenOnce ==
    /\ \A m \in 1..Len(visited) : PyIndex(visited[m], cfg.n_xi) = cfg.n_xi - m
    /\ \A m \in 1..Len(written) :
          /\ written[m].row \in InteriorRows
          /\ written[m].row = cfg.n_xi + 1 - ((m - 1) \div 2)
          /\ written[m].xi =
                Linspace(geo.xi_min, geo.xi_max, cfg.n_xi, written[m].row - 2)
    /\ \A m, n \in 1..Len(written) :
          (m # n /\ written[m].grid = written[n].grid)
              => written[m].row # written[n].row
    /\ SweepOver =>
          \A j \in InteriorRows : \A g \in {"psi", "b_theta_bar"} :
              Cardinality({m \in 1..Len(written) :
                  written[m].grid = g /\ written[m].row = j}) = 1

C6_Witness ==
    /\ ValidCall /\ pc = "done" /\ cfg.n_xi >= 3
    /\ Len(written) = 2 * cfg.n_xi /\ Len(visited) = cfg.n_xi
    /\ ~GridIsZero(psi)

\* C7: the freeze step puts at rest exactly the particles whose gamma
\* exceeds max_gamma; every other particle, one with gamma equal to
\* max_gamma included, keeps its gamma, pz and pr.
C7_FreezeOnlyAboveMax ==
    [][(ValidCall /\ pc = "freeze") =>
          \A k \in 1..Len(pp.gamma) :
              IF RLt(cfg.max_gamma, pp.gamma[k])
              THEN pp'.gamma[k] = R1 /\ pp'.pz[k] = R0 /\ pp'.pr[k] = R0
              ELSE /\ pp'.gamma[k] = pp.gamma[k]
                   /\ pp'.pz[k] = pp.pz[k]
                   /\ pp'.pr[k] = pp.pr[k]]_vars

StageOrder == <<"gather", "sort", "psi", "gamma", "b_theta", "freeze", "grid",
                "deposit", "push">>

\* C8: within a slice the stages run in the order gather, sort, psi,
\* gamma/pz, b_theta, freeze, grid rows, deposition, push; the push is
\* never run after the last grid row is written, and a sweep that completes
\* has called the pusher exactly n_xi - 1 times.
C8_StageOrderAndPushCount ==
    /\ Len(log) <= Len(StageOrder)
    /\ \A m \in 1..Len(log) : log[m] = StageOrder[m]
    /\ npush <= cfg.n_xi - 1 \/ pc = "start"
    /\ (Len(written) = 2 * cfg.n_xi /\ pc # "start") => Len(log) <= 8
    /\ SweepOver => npush = cfg.n_xi - 1

C8_Witness ==
    /\ ValidCall /\ pc = "done" /\ npush = cfg.n_xi - 1 /\ npush >= 2
    /\ log = SubSeq(StageOrder, 1, 8)

\* the charge up to cell k of row j of the box, summed directly
ChargeUpTo(j, k) == RSumSeq([m \in 1..(k + 1) |-> q_dist[j + 2][m + 1]])

\* C10: the beam field is an (n_xi+4) x (n_r+4) grid; its interior cell
\* (j, k) is (sum of q_dist[j, 0..k] - q_dist[j, k]/2 - q_dist[j, 0]/4 if
\* k = 0) * dr / r_k with r_k = (k + 1/2) * dr, its guard cells are zero,
\* and a distribution without charge in the box gives an all-zero grid.
C10_BeamField ==
    pc = "gather" =>
        /\ DOMAIN b_theta_0_mesh = 0..(cfg.n_xi + 3)
        /\ \A j \in 0..(cfg.n_xi + 3) :
              /\ DOMAIN b_theta_0_mesh[j] = 0..(cfg.n_r + 3)
              /\ \A k \in 0..(cfg.n_r + 3) :
                    b_theta_0_mesh[j][k] =
                        IF j \in InteriorRows /\ k \in InteriorCols
                        THEN RDiv(
                               RMul(RSub(RSub(ChargeUpTo(j - 2, k - 2),
                                              RDiv(q_dist[j][k], RInt(2))),
                                         IF k = 2
                                         THEN RDiv(q_dist[j][2], RInt(4))
                                         ELSE R0),
                                    geo.dr),
                               RMul(<<2 * (k - 2) + 1, 2>>, geo.dr))
                        ELSE R0
        /\ (\A j \in InteriorRows : \A k \in InteriorCols : q_dist[j][k] = R0)
              => GridIsZero(b_theta_0_mesh)

C10_Witness ==
    /\ pc = "gather" /\ cfg.n_r >= 2
    /\ q_dist[2][2] # R0 /\ q_dist[2][3] # R0 /\ q_dist[0][0] # R0
    /\ b_theta_0_mesh[2][2] # R0 /\ b_theta_0_mesh[2][3] # R0
    /\ b_theta_0_mesh[0][0] = R0

====
